---- MODULE Spec2Model ----
(***************************************************************************)
(* The request handlers of the chat application:                           *)
(*   POST /api/chat             CreateChat                                 *)
(*   GET  /api/chat             ListChats                                  *)
(*   POST /api/chat/messages    CreateMessage                              *)
(*   GET  /api/chat/messages    ListMessages                               *)
(*   POST /api/chat/aiResponse  StartCompletion                            *)
(* Every await of a handler on the store (Prisma), on the cache (Redis) or *)
(* on the generation backend is a step of its own; the code between two    *)
(* awaits belongs to the step of the first.                                *)
(***************************************************************************)
EXTENDS Integers, Sequences, FiniteSets, TLC

VARIABLES
    now,        \* the clock, in seconds
    rl,         \* the limiter's counters in Redis, per client key
    chats,      \* table Chat
    messages,   \* table Message
    cache,      \* the Redis cache entries, per cache key
    pc,         \* per request slot: the await the handler stands at
    req,        \* per request slot: the request being served
    snap,       \* per request slot: the result of findMany, until it is cached
    calls,      \* per request slot: the collaborators called, in order
    last,       \* what the step just taken returned or finished, if anything
    comp,       \* per completion: the stream and its onFinish callback
    acked,      \* history: ids of entities whose write has been acknowledged
    via,        \* history: per message id, the code path that stored it
    mustSee,    \* history: per request slot, the acknowledged ids when it began
    lastList,   \* history: per cache key, the last payload listed since a write
    prevList,   \* history: per request slot, lastList of its key when it began
    admits,     \* history: per client key, the instants of the write-class
                \* admissions of the trailing window
    arrived,    \* history: the number of requests that have arrived
    snapAt,     \* history: per request slot, the instant of its findMany
    cachedAt    \* history: per cache key, the instant of the findMany whose
                \* result the entry holds

vars == <<now, rl, chats, messages, cache, pc, req, snap, calls, last, comp,
          acked, via, mustSee, lastList, prevList, admits, arrived, snapAt, cachedAt>>

---------------------------------------------------------------------------
(* Bounds of the model *)

NumProcs == 2       \* request slots: requests in flight at once
MaxChats == 2       \* rows of table Chat
MaxMsgs == 2        \* rows of table Message
MaxComp == 1        \* completions started
TickStep == 200     \* seconds per clock step of Spec, SpecSeq, SpecOrd, SpecAdm
MaxTicks == 1       \* clock steps of Spec and SpecAdm
MaxReqs == 3        \* requests that arrive in Spec
SeqMaxTicks == 2    \* clock steps of SpecSeq
SeqMaxReqs == 4     \* requests that arrive in SpecSeq
OrdMaxReqs == 4
OwnMaxReqs == 4
RLTickStep == 3     \* seconds per clock step of SpecRL
RLMaxTicks == 4     \* clock steps of SpecRL

---------------------------------------------------------------------------
(* Program constants *)

WriteTokens == 10   \* Ratelimit.slidingWindow(10, "10 s")
ReadTokens == 30    \* Ratelimit.slidingWindow(30, "10 s")
WindowSecs == 10
CacheTTL == 300     \* redis.set(..., { ex: 300 })

Roles == {"USER", "ASSISTANT", "SYSTEM"}

---------------------------------------------------------------------------
(* Inputs *)

Procs == 1..NumProcs
CompIds == 1..MaxComp
Users == {"u1", "u2"}
NoSession == "none"
Sessions == Users \cup {NoSession}
NoHeader == "absent"
Headers == {"10.0.0.1", NoHeader}
Undefined == "undefined"
MissingChatId == 0
ChatIds == 1..MaxChats
UnknownChat == MaxChats + 1     \* a chatId that names no chat
WriteOps == {"CreateChat", "CreateMessage", "StartCompletion"}
ReadOps == {"ListChats", "ListMessages"}
Ops == WriteOps \cup ReadOps

\* What the generation backend yields for one request: the fragments, in order.
BackendOutputs == {<<>>, <<"Hel", "lo">>}

NoBody ==
    [chatId |-> MissingChatId, content |-> Undefined, role |-> Undefined, out |-> <<>>]

\* The inputs of each operation: the well-formed ones, and one for each way
\* the operation's input can be malformed.
OpBodies(op) ==
    CASE op = "CreateChat" ->
           {[NoBody EXCEPT !.content = c] : c \in {"hi", Undefined}}
      [] op = "ListChats" -> {NoBody}
      [] op = "CreateMessage" ->
           {[NoBody EXCEPT !.chatId = i, !.content = "hi", !.role = "USER"] :
               i \in ChatIds \cup {UnknownChat}}
           \cup {[chatId |-> 1, content |-> "hi", role |-> "MODERATOR", out |-> <<>>],
                 [chatId |-> 1, content |-> "hi", role |-> Undefined, out |-> <<>>],
                 [chatId |-> 1, content |-> Undefined, role |-> "USER", out |-> <<>>],
                 [chatId |-> MissingChatId, content |-> "hi", role |-> "USER",
                  out |-> <<>>]}
      [] op = "ListMessages" ->
           {[NoBody EXCEPT !.chatId = i] : i \in ChatIds \cup {MissingChatId}}
      [] op = "StartCompletion" ->
           {[NoBody EXCEPT !.chatId = i, !.content = "hi", !.out = o] :
               i \in ChatIds \cup {UnknownChat}, o \in BackendOutputs}
           \cup {[NoBody EXCEPT !.chatId = 1], [NoBody EXCEPT !.content = "hi"]}


\* The inputs whose text is the empty string.
EmptyBodies(op) ==
    IF op = "CreateChat"
    THEN {[NoBody EXCEPT !.content = ""]}
    ELSE {[NoBody EXCEPT !.chatId = i, !.content = "", !.role = "USER"] : i \in ChatIds}

---------------------------------------------------------------------------
(* The rate limiter: Ratelimit.slidingWindow(tokens, "10 s") over the      *)
(* shared Redis. Its counters are kept per client key and fixed window;    *)
(* the record holds the counts of window win and of the window before it.  *)

Max(a, b) == IF a >= b THEN a ELSE b

\* headersList.get("x-forwarded-for") ?? "anonymous"
ClientKey(h) == IF h = NoHeader THEN "anonymous" ELSE h

ClientKeys == {ClientKey(h) : h \in Headers}

NoHits == [win |-> 0, cur |-> 0, prev |-> 0]

HitsIn(st, w) ==
    IF w = st.win THEN st.cur ELSE IF w = st.win - 1 THEN st.prev ELSE 0

\* The counters as they stand in window w: counts of older windows have expired.
Roll(st, w) == [win |-> w, cur |-> HitsIn(st, w), prev |-> HitsIn(st, w - 1)]

\* The part of the previous window's count that is weighed into the decision.
WeightedPrev(prevHits, t) ==
    ((WindowSecs - (t % WindowSecs)) * prevHits) \div WindowSecs

\* limiter.limit(key) at time t: the decision and the counters it leaves.
SlidingWindowLimit(st, tokens, t) ==
    LET w == t \div WindowSecs
        at == Roll(st, w)
        weighted == WeightedPrev(at.prev, t)
        denied == weighted + at.cur >= tokens
        remaining == IF denied THEN -1 ELSE tokens - ((at.cur + 1) + weighted)
    IN  [success |-> remaining >= 0,
         limit |-> tokens,
         remaining |-> Max(0, remaining),
         reset |-> (w + 1) * WindowSecs,
         state |-> IF denied THEN at ELSE [at EXCEPT !.cur = @ + 1]]

\* postReqRateLimit (10 per window) or getReqRateLimit (30 per window)
Tokens(op) == IF op \in WriteOps THEN WriteTokens ELSE ReadTokens

---------------------------------------------------------------------------
(* The store: db.chat and db.message                                       *)

ChatExists(c) == \E ch \in chats : ch.id = c

NewChat(u) ==
    [id |-> Cardinality(chats) + 1, title |-> "New Chat", userId |-> u,
     createdAt |-> now, updatedAt |-> now]

NewMessage(c, u, role, content) ==
    [id |-> Cardinality(messages) + 1, content |-> content, role |-> role,
     chatId |-> c, userId |-> u, createdAt |-> now]

\* The sequences that list every element of S once.
SeqsOf(S) ==
    {f \in [1..Cardinality(S) -> S] : \A i, j \in DOMAIN f : i # j => f[i] # f[j]}

\* A findMany without its orderBy: the rows in any order.
OrderAny(S) == SeqsOf(S)

\* orderBy: { createdAt: "asc" }; rows of equal createdAt come in any order
OrderAsc(S) ==
    {f \in SeqsOf(S) :
        \A i, j \in DOMAIN f : i < j => f[i].createdAt <= f[j].createdAt}

\* orderBy: { createdAt: "desc" }
OrderDesc(S) ==
    {f \in SeqsOf(S) :
        \A i, j \in DOMAIN f : i < j => f[i].createdAt >= f[j].createdAt}

\* db.chat.findMany({ where: { userId }, orderBy: { createdAt: "desc" } })
FindManyChats(u) == OrderDesc({ch \in chats : ch.userId = u})

\* db.message.findMany({ where: { chatId }, orderBy: { createdAt: "asc" } })
FindManyMessages(c) == OrderAsc({m \in messages : m.chatId = c})

---------------------------------------------------------------------------
(* JSON and the cache                                                      *)

\* Date.prototype.toJSON: a Date becomes its ISO string
Iso(t) == [iso |-> t]

\* JSON.stringify of a row of the store: its Dates become strings
RowToJSON(row) ==
    IF "updatedAt" \in DOMAIN row
    THEN [row EXCEPT !.createdAt = Iso(@), !.updatedAt = Iso(@)]
    ELSE [row EXCEPT !.createdAt = Iso(@)]

\* JSON.stringify(rows)
JSONStringify(rows) == [json |-> [i \in DOMAIN rows |-> RowToJSON(rows[i])]]

\* JSON.parse(text): the Dates stay strings
JSONParse(text) == text.json

CacheKeys ==
    {[coll |-> "chats", user |-> u, chat |-> MissingChatId] : u \in Users}
    \cup {[coll |-> "messages", user |-> u, chat |-> c] :
             u \in Users, c \in ChatIds}

\* `user:chats:${userId}` and `user:messages:${userId}:chat:${chatId}`
CacheKeyOf(op, u, c) ==
    IF op \in {"CreateChat", "ListChats"}
    THEN [coll |-> "chats", user |-> u, chat |-> MissingChatId]
    ELSE [coll |-> "messages", user |-> u, chat |-> c]

Absent == [present |-> FALSE, val |-> JSONStringify(<<>>), exp |-> 0]

\* redis.get(key): null for a key that is absent or has expired
RedisGet(k) ==
    IF cache[k].present /\ now < cache[k].exp
    THEN [isNull |-> FALSE, val |-> JSONParse(cache[k].val)]
    ELSE [isNull |-> TRUE, val |-> <<>>]

\* A set whose entry lives twice as long.
RedisSetLonger(k, rows) ==
    [cache EXCEPT ![k] = [present |-> TRUE, val |-> JSONStringify(rows),
                          exp |-> now + 2 * CacheTTL]]

\* A test that takes the empty array for a miss.
TruthyNonEmpty(got) == ~got.isNull /\ got.val # <<>>

\* if (cachedChats): null is falsy, every array (the empty one too) is truthy
Truthy(got) == ~got.isNull

\* redis.set(key, JSON.stringify(rows), { ex: 300 })
RedisSet(k, rows) ==
    [cache EXCEPT ![k] = [present |-> TRUE, val |-> JSONStringify(rows),
                          exp |-> now + CacheTTL]]

\* A delete that leaves the entry in place.
RedisDelKeeps(k) == cache

\* redis.del(key)
RedisDel(k) == [cache EXCEPT ![k] = Absent]


---------------------------------------------------------------------------
(* Responses                                                               *)

NoResp == [status |-> 0]

Resp429(d) ==
    [status |-> 429, error |-> "Too many requests", limit |-> d.limit,
     reset |-> d.reset, remaining |-> d.remaining]

Resp401 == [status |-> 401, error |-> "Unauthorized"]

Resp400(msg) == [status |-> 400, error |-> msg]

\* the catch block of each handler: { error: `[[TAG]] -- ${error}` }, status 500
ErrorTag(op) ==
    CASE op = "CreateChat" -> "[[CHAT_POST]]"
      [] op = "ListChats" -> "[[CHAT_GET]]"
      [] op = "CreateMessage" -> "[[MESSAGES_POST]]"
      [] op = "ListMessages" -> "[[MESSAGES_GET]]"
      [] op = "StartCompletion" -> "[[AI_RESPONSE_POST]]"

Resp500(op) == [status |-> 500, error |-> ErrorTag(op)]

\* NextResponse.json({ chats | messages, cached })
RespList(items, cached) == [status |-> 200, items |-> items, cached |-> cached]

---------------------------------------------------------------------------
(* Input validation                                                        *)

\* bodySchema.parse of POST /api/chat/messages
MessageBodyOk(b) ==
    /\ b.chatId # MissingChatId
    /\ b.content # Undefined
    /\ b.role \in Roles

\* bodySchema.parse of POST /api/chat/aiResponse
CompletionBodyOk(b) == b.chatId # MissingChatId /\ b.content # Undefined

---------------------------------------------------------------------------
(* State                                                                   *)

NoReq ==
    [op |-> "none", user |-> NoSession, chatId |-> MissingChatId,
     content |-> Undefined, role |-> Undefined]

NoComp ==
    [st |-> "idle", chatId |-> MissingChatId, userId |-> NoSession, rest |-> <<>>,
     text |-> "", sent |-> <<>>, attempts |-> 0, saved |-> {}]

NoList == [valid |-> FALSE, items |-> <<>>, exp |-> 0]

\* last holds the request that returned in the step just taken (its input, its
\* calls, its response) or the completion whose onFinish ran in it.
NoLast ==
    [req |-> NoReq, resp |-> NoResp, calls |-> <<>>, denied |-> FALSE, mustSee |-> {},
     prev |-> NoList, fin |-> NoComp]

Free(r) == pc[r] = "idle"

InFlight(r) == ~Free(r)

\* The cache key a request in flight works on.
KeyOf(r) == CacheKeyOf(req[r].op, req[r].user, req[r].chatId)

\* The cache keys whose listing a new row of a collection belongs to.
KeysOfChatRow(u) == {k \in CacheKeys : k.coll = "chats" /\ k.user = u}

KeysOfMessageRow(c) == {k \in CacheKeys : k.coll = "messages" /\ k.chat = c}

Init ==
    /\ now = 0
    /\ rl = [k \in ClientKeys |-> NoHits]
    /\ chats = {}
    /\ messages = {}
    /\ cache = [k \in CacheKeys |-> Absent]
    /\ pc = [r \in Procs |-> "idle"]
    /\ req = [r \in Procs |-> NoReq]
    /\ snap = [r \in Procs |-> <<>>]
    /\ calls = [r \in Procs |-> <<>>]
    /\ last = NoLast
    /\ comp = [c \in CompIds |-> NoComp]
    /\ acked = [chats |-> {}, msgs |-> {}]
    /\ via = <<>>
    /\ mustSee = [r \in Procs |-> {}]
    /\ lastList = [k \in CacheKeys |-> NoList]
    /\ prevList = [r \in Procs |-> NoList]
    /\ admits = [k \in ClientKeys |-> <<>>]
    /\ arrived = 0
    /\ snapAt = [r \in Procs |-> 0]
    /\ cachedAt = [k \in CacheKeys |-> 0]

---------------------------------------------------------------------------
(* History                                                                 *)

\* The acknowledged rows a listing of key k has to show.
AckedFor(k) ==
    IF k.coll = "chats"
    THEN {ch.id : ch \in {x \in chats : x.userId = k.user /\ x.id \in acked.chats}}
    ELSE {m.id : m \in {x \in messages :
                           /\ x.chatId = k.chat
                           /\ x.userId = k.user
                           /\ x.id \in acked.msgs}}

\* A write to the keys ks (a new row, a cache set or delete) ends the run of
\* listings of these keys without a write between them.
ListsAfterWrite(ks) == [k \in CacheKeys |-> IF k \in ks THEN NoList ELSE lastList[k]]

\* The same for the listings in flight, and slot r's history is dropped when
\* r returns (free says so).
PrevAfterWrite(ks, r, free) ==
    [q \in Procs |->
        IF q = r
        THEN (IF free THEN NoList ELSE prevList[q])
        ELSE IF InFlight(q) /\ req[q].op \in ReadOps /\ KeyOf(q) \in ks
             THEN NoList ELSE prevList[q]]

\* Slot r returns response rsp after calling cs.
Returns(r, rsp, cs) ==
    /\ pc' = [pc EXCEPT ![r] = "idle"]
    /\ req' = [req EXCEPT ![r] = NoReq]
    /\ snap' = [snap EXCEPT ![r] = <<>>]
    /\ calls' = [calls EXCEPT ![r] = <<>>]
    /\ mustSee' = [mustSee EXCEPT ![r] = {}]
    /\ last' = [NoLast EXCEPT !.req = req[r], !.resp = rsp, !.calls = cs,
                               !.mustSee = mustSee[r], !.prev = prevList[r]]

\* An exception of call reaches the catch block of the handler in slot r.
Thrown(r, call) ==
    Returns(r, Resp500(req[r].op), calls[r] \o <<call, "throw">>)

\* Slot r goes on to the await at, having called call.
GoesOn(r, at, call) ==
    /\ pc' = [pc EXCEPT ![r] = at]
    /\ calls' = [calls EXCEPT ![r] = Append(@, call)]
    /\ last' = NoLast
    /\ UNCHANGED <<req, mustSee>>

---------------------------------------------------------------------------
(* The head of every handler: rate limit, session, input                   *)

\* !message: a missing message and the empty string are falsy
Falsy(message) == message \in {Undefined, ""}

\* A head that reads the input before it resolves the session.
HeadOutcomeParseFirst(op, d, s, b) ==
    CASE ~d.success -> "429"
      [] d.success /\ op = "CreateChat" /\ Falsy(b.content) -> "400"
      [] d.success /\ op = "CreateMessage" /\ ~MessageBodyOk(b) -> "throw"
      [] d.success /\ op = "ListMessages" /\ b.chatId = MissingChatId -> "400"
      [] d.success /\ op = "StartCompletion" /\ ~CompletionBodyOk(b) -> "throw"
      [] OTHER -> IF s = NoSession THEN "401" ELSE "go"

\* A head that resolves the session before it looks at the limiter's decision.
HeadOutcomeAuthFirst(op, d, s, b) ==
    CASE s = NoSession -> "401"
      [] s # NoSession /\ ~d.success -> "429"
      [] OTHER ->
           CASE op = "CreateChat" -> IF Falsy(b.content) THEN "400" ELSE "go"
             [] op = "ListChats" -> "go"
             [] op = "CreateMessage" -> IF MessageBodyOk(b) THEN "go" ELSE "throw"
             [] op = "ListMessages" -> IF b.chatId = MissingChatId THEN "400" ELSE "go"
             [] op = "StartCompletion" -> IF CompletionBodyOk(b) THEN "go" ELSE "throw"

\* How far the head of the handler of op gets, for limiter decision d,
\* session s and input b.
HeadOutcome(op, d, s, b) ==
    CASE ~d.success -> "429"
      [] d.success /\ s = NoSession -> "401"
      [] OTHER ->
           CASE op = "CreateChat" -> IF Falsy(b.content) THEN "400" ELSE "go"
             [] op = "ListChats" -> "go"
             [] op = "CreateMessage" -> IF MessageBodyOk(b) THEN "go" ELSE "throw"
             [] op = "ListMessages" -> IF b.chatId = MissingChatId THEN "400" ELSE "go"
             [] op = "StartCompletion" -> IF CompletionBodyOk(b) THEN "go" ELSE "throw"

\* The collaborators the head calls, in order.
HeadCalls(op, outcome) ==
    CASE outcome = "429" -> <<"limit">>
      [] outcome = "401" -> <<"limit", "auth">>
      [] OTHER ->
           CASE op = "ListChats" -> <<"limit", "auth">>
             [] op = "ListMessages" -> <<"limit", "auth", "searchParams">>
             [] op = "StartCompletion" /\ outcome = "go" ->
                  <<"limit", "auth", "json", "parse", "streamText">>
             [] OTHER ->
                  IF outcome = "throw"
                  THEN <<"limit", "auth", "json", "parse", "throw">>
                  ELSE <<"limit", "auth", "json", "parse">>

\* The response of a handler that returns from its head.
HeadResp(op, outcome, d, c) ==
    CASE outcome = "429" -> Resp429(d)
      [] outcome = "401" -> Resp401
      [] outcome = "400" ->
           Resp400(IF op = "CreateChat" THEN "Missing message" ELSE "Missing chatId")
      [] outcome = "throw" -> Resp500(op)
      [] outcome = "go" -> [status |-> 200, stream |-> c]

\* The await the handler of op stands at after its head.
FirstAwait(op) ==
    CASE op = "CreateChat" -> "chat.create"
      [] op = "CreateMessage" -> "message.create"
      [] op \in ReadOps -> "get"

IdleComps == {c \in CompIds : comp[c].st = "idle"}

\* A request for op arrives with header h, session s and input b; a chatId in
\* b is the id of a chat that exists, or UnknownChat. Slot r serves the request
\* up to its first await on the store or the cache; a request that returns
\* before that takes no slot.
Begin(r, op, h, s, b) ==
    LET key == ClientKey(h)
        d == SlidingWindowLimit(rl[key], Tokens(op), now)
        outcome == HeadOutcome(op, d, s, b)
        streams == outcome = "go" /\ op = "StartCompletion"
        awaits == outcome = "go" /\ op # "StartCompletion"
        ck == CacheKeyOf(op, s, b.chatId)
        c == CHOOSE x \in IdleComps : \A y \in IdleComps : x <= y
        rq == IF outcome \in {"429", "401"}
              THEN [NoReq EXCEPT !.op = op, !.user = s]
              ELSE [op |-> op, user |-> s, chatId |-> b.chatId,
                    content |-> b.content, role |-> b.role]
    IN  /\ Free(r)
        /\ UNCHANGED <<snapAt, cachedAt>>
        /\ \A q \in Procs : q < r => InFlight(q)
        /\ b.chatId \in ChatIds => ChatExists(b.chatId)
        /\ streams => IdleComps # {}
        /\ rl' = [rl EXCEPT ![key] = d.state]
        /\ admits' = IF d.success /\ op \in WriteOps
                     THEN [admits EXCEPT ![key] = Append(@, now)]
                     ELSE admits
        /\ IF awaits
           THEN /\ pc' = [pc EXCEPT ![r] = FirstAwait(op)]
                /\ req' = [req EXCEPT ![r] = rq]
                /\ calls' = [calls EXCEPT ![r] = HeadCalls(op, outcome)]
                /\ mustSee' = [mustSee EXCEPT ![r] =
                                 IF op \in ReadOps THEN AckedFor(ck) ELSE {}]
                /\ prevList' = [prevList EXCEPT ![r] =
                                  IF op \in ReadOps THEN lastList[ck] ELSE NoList]
                /\ last' = NoLast
           ELSE /\ last' = [NoLast EXCEPT !.req = rq,
                                          !.resp = HeadResp(op, outcome, d, c),
                                          !.calls = HeadCalls(op, outcome),
                                          !.denied = ~d.success]
                /\ UNCHANGED <<pc, req, calls, mustSee, prevList>>
        /\ comp' = IF streams
                   THEN [comp EXCEPT ![c] =
                           [NoComp EXCEPT !.st = "streaming", !.chatId = b.chatId,
                                          !.userId = s, !.rest = b.out]]
                   ELSE comp
        /\ UNCHANGED <<now, chats, messages, cache, snap, acked, via, lastList>>

\* await limiter.limit(ip) rejects, the limiter's Redis being unreachable: the
\* exception reaches the catch block of the handler of op.
LimiterDown(op) ==
    /\ UNCHANGED <<snapAt, cachedAt>>
    /\ last' = [NoLast EXCEPT !.req = [NoReq EXCEPT !.op = op],
                               !.resp = Resp500(op),
                               !.calls = <<"limit", "throw">>]
    /\ UNCHANGED <<now, rl, chats, messages, cache, pc, req, snap, calls, comp, acked,
                   via, mustSee, lastList, prevList, admits, arrived>>

---------------------------------------------------------------------------
(* GET /api/chat and GET /api/chat/messages                                *)

\* const cached = await redis.get(cacheKey); if (cached) return ... cached: true
CacheLookup(r, ok) ==
    /\ UNCHANGED <<snapAt, cachedAt>>
    /\ pc[r] = "get"
    /\ IF ok
       THEN LET got == RedisGet(KeyOf(r))
            IN  IF Truthy(got)
                THEN /\ Returns(r, RespList(got.val, TRUE), Append(calls[r], "redis.get"))
                     /\ lastList' = [lastList EXCEPT ![KeyOf(r)] =
                                       [valid |-> TRUE, items |-> got.val,
                                        exp |-> cache[KeyOf(r)].exp]]
                     /\ prevList' = PrevAfterWrite({}, r, TRUE)
                ELSE /\ GoesOn(r, "findMany", "redis.get")
                     /\ UNCHANGED <<lastList, prevList, snap>>
       ELSE /\ Thrown(r, "redis.get")
            /\ prevList' = PrevAfterWrite({}, r, TRUE)
            /\ UNCHANGED lastList
    /\ UNCHANGED <<now, rl, chats, messages, cache, comp, acked, via, admits, arrived>>

\* const rows = await db.<table>.findMany(...)
StoreQuery(r, ok) ==
    /\ pc[r] = "findMany"
    /\ IF ok
       THEN /\ \E rows \in (IF req[r].op = "ListChats"
                            THEN FindManyChats(req[r].user)
                            ELSE FindManyMessages(req[r].chatId)) :
                   snap' = [snap EXCEPT ![r] = rows]
            /\ snapAt' = [snapAt EXCEPT ![r] = now]
            /\ GoesOn(r, "set", "findMany")
            /\ UNCHANGED prevList
       ELSE /\ Thrown(r, "findMany")
            /\ prevList' = PrevAfterWrite({}, r, TRUE)
            /\ UNCHANGED snapAt
    /\ UNCHANGED cachedAt
    /\ UNCHANGED <<now, rl, chats, messages, cache, comp, acked, via, lastList, admits, arrived>>

\* await redis.set(cacheKey, JSON.stringify(rows), { ex: 300 }); return ... cached: false
CachePopulate(r, ok) ==
    /\ pc[r] = "set"
    /\ IF ok
       THEN /\ cache' = RedisSet(KeyOf(r), snap[r])
            /\ cachedAt' = [cachedAt EXCEPT ![KeyOf(r)] = snapAt[r]]
            /\ Returns(r, RespList(JSONParse(JSONStringify(snap[r])), FALSE),
                       Append(calls[r], "redis.set"))
            /\ lastList' = [lastList EXCEPT ![KeyOf(r)] =
                              [valid |-> TRUE,
                               items |-> JSONParse(JSONStringify(snap[r])),
                               exp |-> now + CacheTTL]]
            /\ prevList' = PrevAfterWrite({KeyOf(r)}, r, TRUE)
       ELSE /\ Thrown(r, "redis.set")
            /\ prevList' = PrevAfterWrite({}, r, TRUE)
            /\ UNCHANGED <<cache, lastList, cachedAt>>
    /\ snapAt' = [snapAt EXCEPT ![r] = 0]
    /\ UNCHANGED <<now, rl, chats, messages, comp, acked, via, admits, arrived>>

---------------------------------------------------------------------------
(* POST /api/chat and POST /api/chat/messages                              *)

\* const chat = await db.chat.create({ data: { title: "New Chat", userId } })
DbChatCreate(r, ok) ==
    /\ UNCHANGED <<snapAt, cachedAt>>
    /\ pc[r] = "chat.create"
    /\ IF ok
       THEN /\ Cardinality(chats) < MaxChats
            /\ chats' = chats \cup {NewChat(req[r].user)}
            /\ snap' = [snap EXCEPT ![r] = <<NewChat(req[r].user)>>]
            /\ GoesOn(r, "del", "db.chat.create")
            /\ lastList' = ListsAfterWrite(KeysOfChatRow(req[r].user))
            /\ prevList' = PrevAfterWrite(KeysOfChatRow(req[r].user), r, FALSE)
       ELSE /\ Thrown(r, "db.chat.create")
            /\ UNCHANGED <<chats, lastList, prevList>>
    /\ UNCHANGED <<now, rl, messages, cache, comp, acked, via, admits, arrived>>

\* await redis.del(cacheKey), and in POST /api/chat/messages the return after it
CacheDelete(r, ok) ==
    /\ pc[r] = "del"
    /\ IF ok
       THEN /\ cache' = RedisDel(KeyOf(r))
            /\ cachedAt' = [cachedAt EXCEPT ![KeyOf(r)] = 0]
            /\ lastList' = ListsAfterWrite({KeyOf(r)})
            /\ prevList' = PrevAfterWrite({KeyOf(r)}, r, FALSE)
            /\ IF req[r].op = "CreateChat"
               THEN /\ GoesOn(r, "message.create", "redis.del")
                    /\ UNCHANGED <<snap, acked>>
               ELSE /\ Returns(r, [status |-> 200, message |-> RowToJSON(snap[r][1])],
                               Append(calls[r], "redis.del"))
                    /\ acked' = [acked EXCEPT !.msgs = @ \cup {snap[r][1].id}]
       ELSE /\ Thrown(r, "redis.del")
            /\ UNCHANGED <<cache, lastList, prevList, acked, cachedAt>>
    /\ UNCHANGED snapAt
    /\ UNCHANGED <<now, rl, chats, messages, comp, via, admits, arrived>>

\* await db.message.create(...): the first message of POST /api/chat, which
\* returns after it, or the message of POST /api/chat/messages
DbMessageCreate(r, ok) ==
    /\ UNCHANGED <<snapAt, cachedAt>>
    /\ pc[r] = "message.create"
    /\ IF ok
       THEN LET c == IF req[r].op = "CreateChat" THEN snap[r][1].id ELSE req[r].chatId
                role == IF req[r].op = "CreateChat" THEN "USER" ELSE req[r].role
                row == NewMessage(c, req[r].user, role, req[r].content)
            IN  /\ ChatExists(c)
                /\ Cardinality(messages) < MaxMsgs
                /\ messages' = messages \cup {row}
                /\ via' = Append(via, req[r].op)
                /\ lastList' = ListsAfterWrite(KeysOfMessageRow(c))
                /\ prevList' = PrevAfterWrite(KeysOfMessageRow(c), r, FALSE)
                /\ IF req[r].op = "CreateChat"
                   THEN /\ Returns(r, [status |-> 200, chatId |-> c],
                                   Append(calls[r], "db.message.create"))
                        /\ acked' = [chats |-> acked.chats \cup {c},
                                     msgs |-> acked.msgs \cup {row.id}]
                   ELSE /\ GoesOn(r, "del", "db.message.create")
                        /\ snap' = [snap EXCEPT ![r] = <<row>>]
                        /\ UNCHANGED acked
       ELSE /\ Thrown(r, "db.message.create")
            /\ UNCHANGED <<messages, via, lastList, prevList, acked>>
    /\ UNCHANGED <<now, rl, chats, cache, comp, admits, arrived>>

---------------------------------------------------------------------------
(* POST /api/chat/aiResponse: the stream and its onFinish callback         *)

\* The backend yields the next fragment; it is forwarded to the consumer.
StreamFragment(c) ==
    /\ UNCHANGED <<snapAt, cachedAt>>
    /\ comp[c].st = "streaming"
    /\ comp[c].rest # <<>>
    /\ comp' = [comp EXCEPT ![c].text = @ \o Head(comp[c].rest),
                            ![c].sent = Append(@, Head(comp[c].rest)),
                            ![c].rest = Tail(@)]
    /\ last' = NoLast
    /\ UNCHANGED <<now, rl, chats, messages, cache, pc, req, snap, calls,
                   acked, via, mustSee, lastList, prevList, admits, arrived>>

\* The backend fails, before its first fragment or after some of them: the
\* stream ends with an error and onFinish, the callback of a generation that
\* finished, is not invoked.
StreamFails(c) ==
    /\ UNCHANGED <<snapAt, cachedAt>>
    /\ comp[c].st = "streaming"
    /\ last' = [NoLast EXCEPT !.fin = [comp[c] EXCEPT !.st = "failed"]]
    /\ comp' = [comp EXCEPT ![c] = [NoComp EXCEPT !.st = "done"]]
    /\ UNCHANGED <<now, rl, chats, messages, cache, pc, req, snap, calls,
                   acked, via, mustSee, lastList, prevList, admits, arrived>>

\* A callback that lets the exception of db.message.create escape.
RethrowDbError(fin) == [fin EXCEPT !.st = "unhandled", !.attempts = @ + 1]

\* catch (dbError) { console.error("Error saving AI response to database:", dbError) }
CatchDbError(fin) == [fin EXCEPT !.st = "logged", !.attempts = @ + 1]

\* A test that lets the empty text through.
TextAlwaysTruthy(text) == TRUE

\* if (text): the empty string is falsy
TextTruthy(text) == text # ""

\* onFinish: async ({ text }) => { if (text) { try { await db.message.create(...) }
\* catch (dbError) { console.error(...) } } }
OnFinish(c, ok) ==
    /\ UNCHANGED <<snapAt, cachedAt>>
    /\ comp[c].st = "streaming"
    /\ comp[c].rest = <<>>
    /\ IF TextTruthy(comp[c].text)
       THEN IF ok
            THEN LET row == NewMessage(comp[c].chatId, comp[c].userId, "ASSISTANT",
                                       comp[c].text)
                 IN  /\ ChatExists(comp[c].chatId)
                     /\ Cardinality(messages) < MaxMsgs
                     /\ messages' = messages \cup {row}
                     /\ via' = Append(via, "onFinish")
                     /\ acked' = [acked EXCEPT !.msgs = @ \cup {row.id}]
                     /\ last' = [NoLast EXCEPT !.fin =
                                   [comp[c] EXCEPT !.st = "saved", !.attempts = @ + 1,
                                                   !.saved = @ \cup {row.id}]]
                     /\ lastList' = ListsAfterWrite(KeysOfMessageRow(comp[c].chatId))
                     /\ prevList' = PrevAfterWrite(KeysOfMessageRow(comp[c].chatId),
                                                   0, FALSE)
            ELSE /\ last' = [NoLast EXCEPT !.fin = CatchDbError(comp[c])]
                 /\ UNCHANGED <<messages, via, acked, lastList, prevList>>
       ELSE /\ ok
            /\ last' = [NoLast EXCEPT !.fin = [comp[c] EXCEPT !.st = "skipped"]]
            /\ UNCHANGED <<messages, via, acked, lastList, prevList>>
    /\ comp' = [comp EXCEPT ![c] = [NoComp EXCEPT !.st = "done"]]
    /\ UNCHANGED <<now, rl, chats, cache, pc, req, snap, calls, mustSee, admits, arrived>>

---------------------------------------------------------------------------
(* Time                                                                    *)

\* The clock advances by step seconds: limiter counters of windows that have
\* passed expire, and so do the cache entries whose time to live has elapsed.
Tick(step, maxTicks) ==
    /\ now < maxTicks * step
    /\ now' = now + step
    /\ rl' = [k \in ClientKeys |-> Roll(rl[k], now' \div WindowSecs)]
    /\ cache' = [k \in CacheKeys |->
                   IF cache[k].present /\ now' < cache[k].exp THEN cache[k] ELSE Absent]
    /\ cachedAt' = [k \in CacheKeys |->
                      IF cache[k].present /\ now' < cache[k].exp THEN cachedAt[k] ELSE 0]
    /\ UNCHANGED snapAt
    /\ admits' = [k \in ClientKeys |->
                    SelectSeq(admits[k], LAMBDA t : t > now' - WindowSecs)]
    /\ lastList' = [k \in CacheKeys |->
                      IF lastList[k].valid /\ now' < lastList[k].exp
                      THEN lastList[k] ELSE NoList]
    /\ prevList' = [r \in Procs |->
                      IF prevList[r].valid /\ now' < prevList[r].exp
                      THEN prevList[r] ELSE NoList]
    /\ last' = NoLast
    /\ UNCHANGED <<chats, messages, pc, req, snap, calls, comp, acked, via, mustSee,
                   arrived>>

---------------------------------------------------------------------------
(* Specifications                                                          *)

Arrive(ops, hs, ss) ==
    \E r \in Procs, op \in ops, h \in hs, s \in ss :
        \E b \in OpBodies(op) : Begin(r, op, h, s, b)

\* A request with an empty text arrives.
ArriveEmpty(ss) ==
    \E r \in Procs, op \in {"CreateChat", "CreateMessage"}, s \in ss :
        \E b \in EmptyBodies(op) : Begin(r, op, "10.0.0.1", s, b)

\* The handlers' steps while the store and the cache answer every call.
ServeUp ==
    \E r \in Procs :
        \/ CacheLookup(r, TRUE)
        \/ StoreQuery(r, TRUE)
        \/ CachePopulate(r, TRUE)
        \/ DbChatCreate(r, TRUE)
        \/ CacheDelete(r, TRUE)
        \/ DbMessageCreate(r, TRUE)

Serve ==
    \E r \in Procs, ok \in BOOLEAN :
        \/ CacheLookup(r, ok)
        \/ StoreQuery(r, ok)
        \/ CachePopulate(r, ok)
        \/ DbChatCreate(r, ok)
        \/ CacheDelete(r, ok)
        \/ DbMessageCreate(r, ok)

Complete ==
    \E c \in CompIds :
        \/ StreamFragment(c)
        \/ StreamFails(c)
        \/ \E ok \in BOOLEAN : OnFinish(c, ok)

\* The sessions of one caller: signed in as u1, or none.
OneCaller == {"u1", NoSession}

\* One more request arrives, of at most max.
Counted(max) == arrived < max /\ arrived' = arrived + 1

\* Concurrent requests of one client address.
Next ==
    \/ Tick(TickStep, MaxTicks)
    \/ (Counted(MaxReqs) /\ Arrive(Ops, {"10.0.0.1"}, OneCaller))
    \/ (Counted(MaxReqs) /\ ArriveEmpty({"u1"}))
    \/ Serve
    \/ Complete

Spec == Init /\ [][Next]_vars

\* One caller acting sequentially: a request arrives when no other is in flight
\* and no stream is still being read.
NextSeq ==
    \/ Tick(TickStep, SeqMaxTicks)
    \/ /\ \A r \in Procs : Free(r)
       /\ \A c \in CompIds : comp[c].st # "streaming"
       /\ Counted(SeqMaxReqs)
       /\ Arrive(Ops, {"10.0.0.1"}, OneCaller)
    \/ Serve
    \/ Complete

SpecSeq == Init /\ [][NextSeq]_vars

\* Concurrent requests of one signed-in caller for the chats and messages,
\* while the store and the cache answer.
NextOrd ==
    \/ Tick(TickStep, MaxTicks)
    \/ (Counted(OrdMaxReqs) /\ Arrive(Ops \ {"StartCompletion"}, {"10.0.0.1"}, {"u1"}))
    \/ ServeUp

SpecOrd == Init /\ [][NextOrd]_vars

\* Two signed-in principals, their requests one after another.
NextOwn ==
    \/ /\ \A r \in Procs : Free(r)
       /\ \A c \in CompIds : comp[c].st # "streaming"
       /\ Counted(OwnMaxReqs)
       /\ Arrive(Ops, {"10.0.0.1"}, Users)
    \/ Serve
    \/ Complete

SpecOwn == Init /\ [][NextOwn]_vars

\* Admission alone: requests of callers without a session and without a
\* forwarded address, which end at the limiter or at the identity check; the
\* limiter's Redis may be unreachable.
NextAdm ==
    \/ Tick(TickStep, MaxTicks)
    \/ (UNCHANGED arrived /\ Arrive(Ops, {NoHeader}, {NoSession}))
    \/ (\E op \in Ops : LimiterDown(op))

SpecAdm == Init /\ [][NextAdm]_vars

\* The same for the write-class operations, on the limiter's own time scale.
NextRL ==
    \/ Tick(RLTickStep, RLMaxTicks)
    \/ (UNCHANGED arrived /\ Arrive(WriteOps, {NoHeader}, {NoSession}))

SpecRL == Init /\ [][NextRL]_vars

---------------------------------------------------------------------------
(* Properties                                                              *)

\* The step just taken returned a successful listing.
IsList == last.req.op \in ReadOps /\ last.resp.status = 200

ItemIds(items) == {items[i].id : i \in DOMAIN items}

\* The rows acknowledged by CreateChat or CreateMessage before the listing
\* that just returned had started.
CreatedBefore ==
    IF last.req.op = "ListChats"
    THEN last.mustSee
    ELSE {id \in last.mustSee : via[id] = "CreateMessage"}

\* The same for the rows persisted by onFinish.
CompletedBefore == {id \in last.mustSee : via[id] = "onFinish"}

RECURSIVE Concat(_)
Concat(frags) == IF frags = <<>> THEN "" ELSE Head(frags) \o Concat(Tail(frags))

\* C1: under any interleaving of concurrent requests, a listing that starts
\* after a CreateChat or CreateMessage for its key has returned success shows
\* the created row: it never returns a snapshot of the store taken before
\* that write.
C1_NoStaleListAfterAck == IsList => CreatedBefore \subseteq ItemIds(last.resp.items)

\* C2: a ListMessages of the owner that starts after onFinish has persisted
\* the ASSISTANT message of a completion shows that message, and never a
\* cached snapshot that lacks it.
C2_CompletionListed ==
    (IsList /\ last.req.op = "ListMessages")
        => CompletedBefore \subseteq ItemIds(last.resp.items)

\* C3: for one caller acting sequentially, the ListChats after a successful
\* CreateChat shows the new chat, and the ListMessages after a successful
\* CreateMessage shows the new message.
C3_ReadAfterWrite ==
    /\ (IsList /\ last.req.op = "ListChats")
          => \A id \in last.mustSee : \E i \in DOMAIN last.resp.items :
                 last.resp.items[i].id = id
    /\ (IsList /\ last.req.op = "ListMessages")
          => \A id \in last.mustSee :
                 via[id] = "CreateMessage"
                    => \E i \in DOMAIN last.resp.items : last.resp.items[i].id = id

\* C3: a listing served from the store, after the create's delete of an entry
\* that an earlier listing had written, shows the created message.
C3_Witness ==
    /\ IsList
    /\ last.req.op = "ListMessages"
    /\ ~last.resp.cached
    /\ CreatedBefore # {}
    /\ CreatedBefore \subseteq ItemIds(last.resp.items)

\* C4: no trailing window of WindowSecs seconds holds more than WriteTokens
\* admitted write-class requests of one client key, and a rejected request is
\* told that 0 requests remain.
C4_WriteBudget ==
    /\ \A k \in ClientKeys : Len(admits[k]) <= WriteTokens
    /\ last.denied => last.resp.remaining = 0

\* The step just taken ran the onFinish callback of a completion.
Finished == last.fin.st \in {"saved", "logged", "skipped"}

\* The messages that callback persisted.
Persisted == {m \in messages : m.id \in last.fin.saved}

\* C5 as stated: a completion whose fragments concatenate to a non-empty text
\* persists exactly one message, with role ASSISTANT, that text as content and
\* the request's chatId; one with an empty text persists none.
C5_ExactlyOnePersisted ==
    Finished =>
        IF Concat(last.fin.sent) # ""
        THEN \E m \in Persisted :
                /\ Persisted = {m}
                /\ m.role = "ASSISTANT"
                /\ m.content = Concat(last.fin.sent)
                /\ m.chatId = last.fin.chatId
        ELSE Persisted = {}

\* C5: a completion whose fragments concatenate to a non-empty text makes
\* exactly one attempt to persist a message; the attempt that succeeds leaves
\* exactly one message, with role ASSISTANT, that text as content and the
\* request's chatId, and the attempt that fails leaves none. A completion with
\* an empty text makes no attempt and persists nothing.
C5_OneAttempt ==
    Finished =>
        IF Concat(last.fin.sent) # ""
        THEN /\ last.fin.attempts = 1
             /\ last.fin.st \in {"saved", "logged"}
             /\ last.fin.st = "logged" => Persisted = {}
             /\ last.fin.st = "saved" =>
                   \E m \in Persisted :
                       /\ Persisted = {m}
                       /\ m.role = "ASSISTANT"
                       /\ m.content = Concat(last.fin.sent)
                       /\ m.chatId = last.fin.chatId
        ELSE /\ last.fin.attempts = 0
             /\ last.fin.st = "skipped"
             /\ Persisted = {}

\* C5: the fragments "Hel" and "lo" were forwarded and one message "Hello"
\* was persisted.
C5_Witness ==
    /\ last.fin.st = "saved"
    /\ last.fin.sent = <<"Hel", "lo">>
    /\ \E m \in Persisted : m.content = "Hello"

StoreOrCacheCalls ==
    {"db.chat.create", "db.message.create", "findMany", "redis.get", "redis.set",
     "redis.del"}

\* C6: an admitted, authenticated CreateMessage whose input fails the schema
\* gets a validation outcome, not the server-fault outcome of the handler's
\* catch block, and calls neither the store nor the cache.
C6_ValidationOutcome ==
    (/\ last.req.op = "CreateMessage"
     /\ last.resp.status \notin {0, 401, 429}
     /\ ~MessageBodyOk(last.req))
        => /\ last.resp # Resp500("CreateMessage")
           /\ \A i \in DOMAIN last.calls : last.calls[i] \notin StoreOrCacheCalls

\* C7: a listing of a key that was listed before, with no write to the key
\* since and within the time to live of the entry, returns the payload of the
\* earlier listing and reports cached = true; so for an empty collection.
C7_RepeatedListCached ==
    (IsList /\ last.prev.valid)
        => (last.resp.cached /\ last.resp.items = last.prev.items)

\* C7: the second listing of an empty collection.
C7_Witness ==
    /\ IsList
    /\ last.prev.valid
    /\ last.resp.cached
    /\ last.resp.items = <<>>

\* C8: a successful ListMessages lists the messages by ascending createdAt and
\* a successful ListChats lists the chats by descending createdAt, from the
\* store or from the cache.
C8_ListOrder ==
    IsList =>
        \A i, j \in DOMAIN last.resp.items :
            i < j =>
                IF last.req.op = "ListMessages"
                THEN last.resp.items[i].createdAt.iso <= last.resp.items[j].createdAt.iso
                ELSE last.resp.items[i].createdAt.iso >= last.resp.items[j].createdAt.iso

\* C8: two messages created at different times, listed from the cache.
C8_Witness ==
    /\ IsList
    /\ last.req.op = "ListMessages"
    /\ last.resp.cached
    /\ Len(last.resp.items) = 2
    /\ last.resp.items[1].createdAt.iso < last.resp.items[2].createdAt.iso

\* C9: a request the limiter denies returns 429 with limit, remaining and
\* reset, having called the limiter alone: store, cache, completions and the
\* requests in flight are as they were.
C9_DeniedDoesNothing ==
    [][last'.denied =>
          /\ last'.resp.status = 429
          /\ {"limit", "remaining", "reset"} \subseteq DOMAIN last'.resp
          /\ last'.resp.limit = Tokens(last'.req.op)
          /\ last'.resp.reset > now
          /\ last'.calls = <<"limit">>
          /\ UNCHANGED <<chats, messages, cache, comp, pc, req, acked>>]_vars

\* C9: a read request was denied.
C9_Witness ==
    /\ last.denied
    /\ last.req.op = "ListMessages"
    /\ last.resp.status = 429

\* The call to the cache at position i of cs threw.
CacheFailed(cs) ==
    \E i \in DOMAIN cs :
        /\ cs[i] \in {"redis.get", "redis.set"}
        /\ i < Len(cs)
        /\ cs[i + 1] = "throw"

\* C10: a listing whose cache lookup or cache write fails still returns the
\* rows of the store with cached = false.
C10_CacheFailureSwallowed ==
    (last.req.op \in ReadOps /\ CacheFailed(last.calls))
        => (last.resp.status = 200 /\ ~last.resp.cached)

\* The limiter call of the request that just returned threw.
LimiterFailed == last.calls = <<"limit", "throw">>

\* C11: a request whose limiter call fails is rejected with the rate-limited
\* outcome, 429, and has called nothing but the limiter.
C11_LimiterFailClosed ==
    LimiterFailed => (last.resp.status = 429 /\ Len(last.calls) = 2)

\* C12: a completion whose backend fails after a non-empty partial text makes
\* exactly one attempt to persist that text; one whose backend fails before
\* any text makes none.
C12_PartialTextPersisted ==
    last.fin.st = "failed" =>
        IF Concat(last.fin.sent) # ""
        THEN last.fin.attempts = 1
        ELSE last.fin.attempts = 0

\* C13: a failed attempt of onFinish to persist is logged and produces no
\* response: every fragment has been forwarded as the backend gave it. The
\* response of StartCompletion is returned while the stream is open, before
\* any attempt to persist, and its 500 comes from the head of the handler only.
C13_PersistenceFailureLogged ==
    /\ (last.fin.attempts = 1 /\ last.fin.saved = {})
          => /\ last.fin.st = "logged"
             /\ last.resp = NoResp
             /\ last.fin.rest = <<>>
             /\ Concat(last.fin.sent) = last.fin.text
    /\ (last.req.op = "StartCompletion" /\ last.resp.status = 200)
          => /\ comp[last.resp.stream].st = "streaming"
             /\ comp[last.resp.stream].attempts = 0
    /\ (last.req.op = "StartCompletion" /\ last.resp.status = 500)
          => \A i \in DOMAIN last.calls :
                 last.calls[i] \notin {"streamText", "db.message.create"}

\* C13: the write of the text "Hello" failed after both fragments were sent.
C13_Witness ==
    /\ last.fin.st = "logged"
    /\ last.fin.sent = <<"Hel", "lo">>
    /\ last.fin.saved = {}

\* The cache key of the listing that just returned.
ListedKey == CacheKeyOf(last.req.op, last.req.user, last.req.chatId)

C15_AllEntriesInvalidated ==
    \A k \in CacheKeys :
        (k.coll = "messages" /\ cache[k].present)
            => \A m \in messages :
                   (m.chatId = k.chat /\ m.id \in acked.msgs)
                       => m.id \in ItemIds(JSONParse(cache[k].val))

\* The principal that owns chat c.
OwnerOf(c) == (CHOOSE ch \in chats : ch.id = c).userId

\* C20: ListMessages of a chat by a principal that does not own it returns
\* none of its messages, and every message of a chat was stored for the
\* chat's owner.
C20_OwnerOnly ==
    /\ (/\ IsList
        /\ last.req.op = "ListMessages"
        /\ ChatExists(last.req.chatId)
        /\ OwnerOf(last.req.chatId) # last.req.user)
          => last.resp.items = <<>>
    /\ \A m \in messages : m.userId = OwnerOf(m.chatId)

\* C17: every message of the store has a non-empty content and a role of the
\* enum Role.
C17_MessagesWellFormed ==
    \A m \in messages : m.content # "" /\ m.role \in Roles

\* C16: a request that passes the limiter and has no session returns 401,
\* having called the limiter and the identity check alone: store, cache,
\* completions and the requests in flight are as they were, and one unit of
\* the client's budget is spent.
C16_UnauthenticatedDoesNothing ==
    [][(/\ last'.req.op \in Ops
        /\ last'.req.user = NoSession
        /\ ~last'.denied
        /\ ~LimiterFailed')
          => /\ last'.resp = Resp401
             /\ last'.calls = <<"limit", "auth">>
             /\ UNCHANGED <<chats, messages, cache, comp, pc, req, acked>>
             /\ \E k \in ClientKeys :
                   /\ rl'[k].cur = Roll(rl[k], now \div WindowSecs).cur + 1
                   /\ \A j \in ClientKeys \ {k} : rl'[j] = rl[j]]_vars

\* C16: a StartCompletion without a session was answered 401 and counted.
C16_Witness ==
    /\ last.req.op = "StartCompletion"
    /\ last.req.user = NoSession
    /\ last.resp.status = 401
    /\ \E k \in ClientKeys : rl[k].cur > 0

\* C18: no reader sees a chat without a message, and when no request is in
\* flight every chat has its first USER message.
C18_CreateChatAtomic ==
    /\ (IsList /\ last.req.op = "ListMessages") => last.resp.items # <<>>
    /\ (\A r \in Procs : Free(r))
          => \A ch \in chats :
                 \E m \in messages : m.chatId = ch.id /\ m.role = "USER"

\* C19: a CreateChat or CreateMessage that returns 429, 401, 400 or 500 has
\* written nothing to the store: each of its store writes threw.
C19_FailureLeavesStoreUnchanged ==
    (/\ last.req.op \in {"CreateChat", "CreateMessage"}
     /\ last.resp.status \in {429, 401, 400, 500})
        => \A i \in DOMAIN last.calls :
               last.calls[i] \in {"db.chat.create", "db.message.create"}
                   => (i < Len(last.calls) /\ last.calls[i + 1] = "throw")

====
